---- MODULE Spec2Model ----
(***************************************************************************)
(* A model of src/models.py: the four sparse-dictionary models             *)
(* (SparseCoding, SparseAutoEncoder, GatedSAE, TopKSAE), the TopK          *)
(* activation and SparseCoding.infer.                                      *)
(*                                                                         *)
(* Numbers.  Tensor entries are exact:                                     *)
(*   - a rational is [num, den] in lowest terms (den > 0);                 *)
(*   - a code entry is [kind, num, den]: kind "rat" is the rational        *)
(*     num/den, kind "exp" is e^(num/den) (torch.exp of a rational);       *)
(*   - a dictionary row is [v, q]: the vector v / sqrt(q), with v an       *)
(*     integer vector.  q = 1 is a plain integer row, q = 0 is the row of  *)
(*     NaNs that dividing a zero row by its zero norm leaves;              *)
(*   - a gradient row is [v, den]: the vector v / den (den = 0: NaNs);     *)
(*   - a reconstruction S_ @ D_ + b is kept as the product it is,          *)
(*     [S, D, b]: the code, the dictionary it was multiplied with, the     *)
(*     bias added.                                                         *)
(* GatedSAE.r_mag is held in units of ln 2, so exp(r_mag) = 2^r_mag.       *)
(***************************************************************************)
EXTENDS Integers, Sequences, FiniteSets, TLC

\* ------------------------------------------------------------------ bounds
NumAtoms == 2      \* N: rows of the dictionary
ObsDim == 2        \* M: columns of the dictionary
MaxBatch == 2      \* rows of X
MaxIter == 2       \* largest num_iterations passed to infer
MaxGrad == 1       \* a gradient is added to only while its entries are integers below this
MaxGradDen == 1    \* a gradient is projected only while its denominators are at most this
TopKLen == 5       \* length of the vectors given to TopK alone

\* ------------------------------------------------------- program constants
LogSInit == -10    \* -10 * torch.ones(...)
LrNum == 3         \* lr = 3e-3
LrDen == 1000

Atoms == 1..NumAtoms
Cols == 1..ObsDim

\* --------------------------------------------------------------- arithmetic
Abs(x) == IF x < 0 THEN -x ELSE x

Sign(x) == IF x < 0 THEN -1 ELSE IF x = 0 THEN 0 ELSE 1

RECURSIVE GCD(_, _)
GCD(a, b) == IF b = 0 THEN a ELSE GCD(b, a % b)

RECURSIVE SumTo(_, _)
SumTo(f, n) == IF n = 0 THEN 0 ELSE f[n] + SumTo(f, n - 1)

Sum(f) == SumTo(f, Len(f))

Dot(u, v) == Sum([j \in 1..Len(u) |-> u[j] * v[j]])

RECURSIVE VecGcdTo(_, _)
VecGcdTo(v, n) == IF n = 0 THEN 0 ELSE GCD(Abs(v[n]), VecGcdTo(v, n - 1))

VecGcd(v) == VecGcdTo(v, Len(v))

Pow2(n) == 2 ^ n

\* A rational in lowest terms.
Rat(n, d) ==
    LET g == GCD(Abs(n), Abs(d))
        s == IF d < 0 THEN -1 ELSE 1
    IN  [num |-> (s * n) \div g, den |-> (s * d) \div g]

RatAdd(a, b) == Rat(a.num * b.den + b.num * a.den, a.den * b.den)

RatMul(a, b) == Rat(a.num * b.num, a.den * b.den)

\* Code entries.
Num(r) == [kind |-> "rat", num |-> r.num, den |-> r.den]

IntNum(n) == Num(Rat(n, 1))

ZeroNum == IntNum(0)

\* torch.exp of the rational r.
Exp(r) == [kind |-> "exp", num |-> r.num, den |-> r.den]

\* Sign of a code entry: e^x is positive for every x.
NumSign(x) == IF x.kind = "exp" THEN 1 ELSE Sign(x.num)

NumTimes(x, r) == Num(RatMul([num |-> x.num, den |-> x.den], r))

\* A ReLU that lets negative values through.
ReluLeaky(x) == x

\* torch.relu / nn.ReLU / F.relu on one entry.
Relu(x) == IF NumSign(x) < 0 THEN ZeroNum ELSE x

Rows(A) == Len(A)

\* A vector that is a at position p and c elsewhere.
Vec(len, p, a, c) == [j \in 1..len |-> IF j = p THEN a ELSE c]

ConstVec(len, c) == [j \in 1..len |-> c]

\* ----------------------------------------------------------- the dictionary
RawRow(v) == [v |-> v, q |-> 1]

NaNRow == [v |-> ConstVec(ObsDim, 0), q |-> 0]

IsZeroRow(r) == r.q = 0 \/ Dot(r.v, r.v) = 0

IsUnitRow(r) == r.q # 0 /\ Dot(r.v, r.v) = r.q

NoZeroRow(D) == \A i \in DOMAIN D : ~IsZeroRow(D[i])

AllUnit(D) == \A i \in DOMAIN D : IsUnitRow(D[i])

\* A row divided by its squared norm instead of its norm.
RowNormalizeSquared(r) ==
    IF IsZeroRow(r) THEN NaNRow
    ELSE [v |-> r.v, q |-> (Dot(r.v, r.v) * Dot(r.v, r.v)) \div r.q]

\* row / torch.linalg.norm(row): (v / sqrt q) / (|v| / sqrt q) = v / |v|, written
\* with v reduced to its primitive vector; a zero row gives 0/0 = NaN.
RowNormalize(r) ==
    IF IsZeroRow(r) THEN NaNRow
    ELSE LET g == VecGcd(r.v)
             w == [j \in DOMAIN r.v |-> r.v[j] \div g]
         IN  [v |-> w, q |-> Dot(w, w)]

\* D_ / torch.linalg.norm(D_, dim=1, keepdim=True)
NormalizeRows(D) == [i \in DOMAIN D |-> RowNormalize(D[i])]

\* ------------------------------------------------------------------ inputs
\* The post-activations TopK is built with here: nn.ReLU() (the default) and
\* nn.Identity(), which leaves the selected values as they are.
PostActs == {"ReLU", "Identity"}

DictPairs == {<<1, 0>>, <<3, 4>>, <<1, 1>>}

\* An N x M integer dictionary: row i is a at column ((i-1) mod M)+1 and c
\* elsewhere; row z (if any) is a zero row.
DictOf(a, c, z) ==
    [i \in Atoms |->
        IF i = z THEN RawRow(ConstVec(ObsDim, 0))
        ELSE RawRow(Vec(ObsDim, ((i - 1) % ObsDim) + 1, a, c))]

DictChoices == {DictOf(p[1], p[2], z) : p \in DictPairs, z \in {0, 1}}

\* Where an optimizer step may leave a learned dictionary.
StepDicts == {DictOf(3, 4, 0), DictOf(1, 1, 0), DictOf(1, 0, 1)}

\* What a random initialisation (randn, kaiming_uniform_) gives: no zero row.
RandomDicts == {DictOf(p[1], p[2], 0) : p \in DictPairs}

WeightPairs == {<<1, 0>>, <<1, -1>>}

\* An out x in weight matrix, row i the weights of output i.
WeightOf(out, in, a, c) ==
    [i \in 1..out |-> Vec(in, ((i - 1) % in) + 1, a, c)]

EncoderWeights == {WeightOf(NumAtoms, ObsDim, p[1], p[2]) : p \in WeightPairs}

GateWeights == {WeightOf(ObsDim, NumAtoms, p[1], p[2]) : p \in WeightPairs}

BiasPairs == {<<0, 0>>, <<-1, 1>>}

BiasVecs(len) == {Vec(len, 1, p[1], p[2]) : p \in BiasPairs}

\* Where an optimizer step may leave r_mag (in units of ln 2) and b_mag.
MagnitudeChoices == {<<-1, -1, 1>>, <<1, 0, 0>>, <<1, -1, 1>>}

\* An observation matrix of b rows: row r is a at column ((r-1) mod M)+1 and c
\* elsewhere.
XOf(b, a, c) == [r \in 1..b |-> Vec(ObsDim, ((r - 1) % ObsDim) + 1, a, c)]

XPairs == {<<1, 0>>, <<-1, 2>>}

\* Batches of one row and of MaxBatch rows.
XChoices == {XOf(b, p[1], p[2]) : b \in {1, MaxBatch}, p \in XPairs}

GradPairs == {<<1, -1>>}

\* A gradient the backward pass computed for D_: N rows of integers.
GradChoices ==
    {[i \in Atoms |-> [v |-> Vec(ObsDim, ((i - 1) % ObsDim) + 1, p[1], p[2]), den |-> 1]] :
        p \in GradPairs}

Weights == {1}

\* ------------------------------------------------------------------- state
VARIABLES
    pc,             \* "new" before __init__, "ready" between calls, "infer" inside infer
    cfg,            \* what the model was built with: model, learn_D, relu, postact, k
    D,              \* the tensor D the caller passed to __init__
    D0,             \* the values that tensor held when it was passed
    D_,             \* self.D_
    D_grad,         \* self.D_.grad: [set |-> FALSE] is None
    log_S_,         \* SparseCoding.log_S_
    encoder,        \* the nn.Linear of SparseAutoEncoder / TopKSAE: [weight, bias]
    W_gate, b_dec, r_mag, b_mag, b_gate,    \* GatedSAE parameters
    latent_bias, pre_bias,                  \* TopKSAE parameters
    ret,            \* what the last call returned (or raised)
    num_iterations, \* infer: its argument
    iter,           \* infer: loop iterations completed
    inferX,         \* infer: its argument X
    S_local,        \* infer: the local variable S_ ([bound |-> FALSE] before its first assignment)
    entry,          \* D_ and D_.grad as they were when infer was called
    tieLow,         \* whether this build's torch.topk prefers the lower index among equal values
    x, k, r         \* TopK on its own: input vector, k, result

vars == <<pc, cfg, D, D0, D_, D_grad, log_S_, encoder, W_gate, b_dec, r_mag, b_mag,
          b_gate, latent_bias, pre_bias, ret, num_iterations, iter, inferX,
          S_local, entry, tieLow, x, k, r>>

params == <<log_S_, encoder, W_gate, b_dec, r_mag, b_mag, b_gate, latent_bias, pre_bias>>

inferVars == <<num_iterations, iter, inferX, S_local, entry>>

topkVars == <<x, k, r>>

NoGrad == [set |-> FALSE, g |-> <<>>]

NoProduct == [S |-> <<>>, D |-> <<>>, b |-> <<>>]

\* A call's record: what it was given and returned (or raised); for forward, how
\* many forward calls with this X have run back to back (capped at 2); for infer,
\* the loop passes it made and D_ and D_.grad as they were when it was called.
NoRet == [op |-> "none", raised |-> "", X |-> <<>>, S_ |-> <<>>, X_ |-> NoProduct,
          pre_gate_hidden |-> <<>>, loss |-> "", D_ |-> <<>>, streak |-> 0,
          n |-> 0, iters |-> 0, entry |-> [D_ |-> <<>>, D_grad |-> NoGrad]]

Unbound == [bound |-> FALSE, val |-> <<>>]

\* ------------------------------------------------------------ TopK.forward
\* Whether torch.topk ranks position j before position i: by value, and among
\* equal values in the order the selection happens to use.
RankedBefore(xs, j, i, low) ==
    \/ xs[j] > xs[i]
    \/ xs[j] = xs[i] /\ (IF low THEN j < i ELSE j > i)

\* A selection that takes one position too many.
TopKIndicesOneMore(xs, kk, low) ==
    {i \in DOMAIN xs : Cardinality({j \in DOMAIN xs : RankedBefore(xs, j, i, low)}) <= kk}

\* topk.indices: the positions of the kk largest values.
TopKIndices(xs, kk, low) ==
    {i \in DOMAIN xs : Cardinality({j \in DOMAIN xs : RankedBefore(xs, j, i, low)}) < kk}

\* self.postact_fn on one selected value.
PostAct(fn, v) == IF fn = "ReLU" THEN Relu(IntNum(v)) ELSE IntNum(v)

\* TopK.forward: zeros_like(x) with postact_fn(topk.values) scattered at topk.indices.
TopKForward(xs, kk, fn, low) ==
    [i \in DOMAIN xs |->
        IF i \in TopKIndices(xs, kk, low) THEN PostAct(fn, xs[i]) ELSE ZeroNum]

\* ------------------------------------------------------------ forward passes
\* A forward that renormalises whatever learn_D is.
ForwardDictAlways(learn, Dm) == NormalizeRows(Dm)

\* The renormalisation every forward starts with.
ForwardDict(learn, Dm) == IF learn THEN NormalizeRows(Dm) ELSE Dm

\* S @ Dm + b
Product(S, Dm, b) == [S |-> S, D |-> Dm, b |-> b]

NoBias == ConstVec(ObsDim, 0)

\* SparseCoding: S_ = torch.exp(self.log_S_)
SparseCodingCode(logS) ==
    [b \in DOMAIN logS |-> [i \in DOMAIN logS[b] |-> Exp(logS[b][i])]]

\* nn.Linear: X @ weight.T + bias
Linear(lin, X) ==
    [b \in DOMAIN X |-> [i \in DOMAIN lin.weight |-> Dot(X[b], lin.weight[i]) + lin.bias[i]]]

\* SparseAutoEncoder: S_ = self.encoder(X), the Linear followed by ReLU or Exp
AutoEncoderCode(lin, relu, X) ==
    LET pre == Linear(lin, X)
    IN  [b \in DOMAIN X |-> [i \in DOMAIN pre[b] |->
            IF relu THEN Relu(IntNum(pre[b][i])) ELSE Exp(Rat(pre[b][i], 1))]]

\* exp(r) for r in units of ln 2
Exp2(rr) == IF rr >= 0 THEN Rat(Pow2(rr), 1) ELSE Rat(1, Pow2(-rr))

\* GatedSAE: preactivations_hidden = (X - b_dec) @ W_gate
GatedPreactivations(Wg, bd, X) ==
    [b \in DOMAIN X |-> [i \in Atoms |->
        Sum([j \in Cols |-> (X[b][j] - bd[j]) * Wg[j][i]])]]

\* pre_gate_hidden = preactivations_hidden + b_gate
GatedPreGate(pre, bg) == [b \in DOMAIN pre |-> [i \in Atoms |-> pre[b][i] + bg[i]]]

\* A step gate that is fully open at zero.
PostGateHeaviside(g) == IF g >= 0 THEN Rat(1, 1) ELSE Rat(0, 1)

\* post_gate_hidden = (torch.sign(pre_gate_hidden) + 1) / 2
PostGate(g) == Rat(Sign(g) + 1, 2)

\* post_mag_hidden = relu(preactivations_hidden * exp(r_mag) + b_mag)
PostMag(p, rm, bm) == Relu(Num(RatAdd(RatMul(Rat(p, 1), Exp2(rm)), Rat(bm, 1))))

\* S_ = post_mag_hidden * post_gate_hidden
GatedCode(pre, rm, bm, bg) ==
    [b \in DOMAIN pre |-> [i \in Atoms |->
        NumTimes(PostMag(pre[b][i], rm[i], bm[i]), PostGate(pre[b][i] + bg[i]))]]

\* TopKSAE: S_ = self.activation(self.encoder(X - pre_bias) + latent_bias)
TopKSAECode(lin, lb, pb, kk, fn, low, X) ==
    LET Xc == [b \in DOMAIN X |-> [j \in Cols |-> X[b][j] - pb[j]]]
        pre == Linear([weight |-> lin.weight, bias |-> lb], Xc)
    IN  [b \in DOMAIN X |-> TopKForward(pre[b], kk, fn, low)]

\* The code S_ that forward(X) computes from the current parameters; pre is
\* GatedSAE's preactivations_hidden.
Code(X, pre) ==
    CASE cfg.model = "SparseCoding" -> SparseCodingCode(log_S_)
      [] cfg.model = "SparseAutoEncoder" -> AutoEncoderCode(encoder, cfg.relu, X)
      [] cfg.model = "GatedSAE" -> GatedCode(pre, r_mag, b_mag, b_gate)
      [] cfg.model = "TopKSAE" ->
            TopKSAECode(encoder, latent_bias, pre_bias, cfg.k, cfg.postact, tieLow, X)

\* The bias forward adds to S_ @ D_.
DecoderBias ==
    CASE cfg.model = "GatedSAE" -> b_dec
      [] cfg.model = "TopKSAE" -> pre_bias
      [] OTHER -> NoBias

\* The reconstruction multiplied with the dictionary as it was before the
\* renormalisation.
ReconDictStale(before, after) == before

\* The dictionary the reconstruction of forward is multiplied with, given the
\* dictionary before the call and the one the renormalisation left.
ReconDict(before, after) == after

\* forward(X): what it returns and the D_ it leaves.
ForwardResult(X) ==
    LET Dn == ForwardDict(cfg.learn_D, D_)
        pre == IF cfg.model = "GatedSAE" THEN GatedPreactivations(W_gate, b_dec, X) ELSE <<>>
        S == Code(X, pre)
    IN  [S_ |-> S,
         X_ |-> Product(S, ReconDict(D_, Dn), DecoderBias),
         pre_gate_hidden |-> IF cfg.model = "GatedSAE" THEN GatedPreGate(pre, b_gate) ELSE <<>>,
         D_ |-> Dn]

\* The loss each loss_forward builds, by its terms.
LossOf(w) ==
    CASE cfg.model = "GatedSAE" -> IF w = 0 THEN "mse+aux" ELSE "mse+l1_gate+aux"
      [] cfg.model = "TopKSAE" -> "sse"
      [] OTHER -> IF w = 0 THEN "sse" ELSE "sse+l1"

\* ---------------------------------------------------------------- gradients
NaNGradRow == [v |-> ConstVec(ObsDim, 0), den |-> 0]

\* The gradient row v / den in lowest terms.
GradRow(v, den) ==
    LET g == GCD(VecGcd(v), den)
    IN  IF g = 0 THEN [v |-> v, den |-> 1]
        ELSE [v |-> [j \in DOMAIN v |-> v[j] \div g], den |-> den \div g]

GradRowAdd(a, b) ==
    IF a.den = 0 \/ b.den = 0 THEN NaNGradRow
    ELSE GradRow([j \in DOMAIN a.v |-> a.v[j] * b.den + b.v[j] * a.den], a.den * b.den)

\* Autograd accumulating g into a .grad: None becomes g, a tensor is added to.
Accumulate(grad, g) ==
    IF grad.set THEN [set |-> TRUE, g |-> [i \in DOMAIN g |-> GradRowAdd(grad.g[i], g[i])]]
    ELSE [set |-> TRUE, g |-> g]

GradRowSub(a, b) == GradRowAdd(a, [v |-> [j \in DOMAIN b.v |-> -b.v[j]], den |-> b.den])

\* One row of D_grad_proj = (self.D_.grad * D_normed).sum(-1, keepdim=True) * D_normed,
\* where D_normed = w / |w| for the primitive vector w of the dictionary row.
GradProjRow(grow, drow) ==
    IF IsZeroRow(drow) \/ grow.den = 0 THEN NaNGradRow
    ELSE LET w == RowNormalize(drow).v
         IN  GradRow([j \in DOMAIN w |-> Dot(grow.v, w) * w[j]], grow.den * Dot(w, w))

\* Whether another backward pass keeps the gradient within the bound.
GradSmall(grad) ==
    ~grad.set \/ \A i \in DOMAIN grad.g :
        grad.g[i].den = 1 /\ \A j \in DOMAIN grad.g[i].v : Abs(grad.g[i].v[j]) < MaxGrad

\* Whether projecting the gradient keeps its denominators within the bound.
GradProjectable(grad) ==
    ~grad.set \/ \A i \in DOMAIN grad.g : grad.g[i].den <= MaxGradDen

\* -------------------------------------------------------------- construction
Init ==
    /\ pc = "new"
    /\ cfg = [model |-> "none", learn_D |-> FALSE, relu |-> TRUE, postact |-> "ReLU", k |-> 0]
    /\ D = <<>>
    /\ D0 = <<>>
    /\ D_ = <<>>
    /\ D_grad = NoGrad
    /\ log_S_ = <<>>
    /\ encoder = [weight |-> <<>>, bias |-> <<>>]
    /\ W_gate = <<>> /\ b_dec = <<>> /\ r_mag = <<>> /\ b_mag = <<>> /\ b_gate = <<>>
    /\ latent_bias = <<>> /\ pre_bias = <<>>
    /\ ret = NoRet
    /\ num_iterations = 0 /\ iter = 0 /\ inferX = <<>> /\ S_local = Unbound
    /\ entry = [D_ |-> <<>>, D_grad |-> NoGrad]
    /\ tieLow = FALSE
    /\ x = <<>> /\ k = 0 /\ r = <<>>

\* -10 * torch.ones(rows, N)
InitialLogS(rows) == [b \in 1..rows |-> [i \in Atoms |-> Rat(LogSInit, 1)]]

\* The D_ a constructor that normalises its dictionary leaves.
ConstructedDict(Dm) == NormalizeRows(Dm)

\* The tensors D a caller passes: any dictionary when it is to stay fixed; when
\* it is learned only its shape is read.
CallerDicts(learn) == IF learn THEN {DictOf(1, 0, 0)} ELSE DictChoices

\* The part of every __init__ that sets D_: a random tensor when the dictionary
\* is learned, the caller's tensor itself (shared storage) when it is not.
ConstructDict(learn, normalise) ==
    \E Dc \in CallerDicts(learn), R \in RandomDicts :
        LET Dm == IF learn THEN R ELSE Dc
            Dn == IF normalise THEN ConstructedDict(Dm) ELSE Dm
        IN  /\ D0' = Dc
            /\ D_' = Dn
            /\ D' = IF learn THEN Dc ELSE Dn

Built(m, learn, relu, fn, kk) ==
    /\ pc = "new"
    /\ pc' = "ready"
    /\ cfg' = [model |-> m, learn_D |-> learn, relu |-> relu, postact |-> fn, k |-> kk]
    /\ ret' = [NoRet EXCEPT !.op = "__init__"]
    /\ UNCHANGED <<D_grad, inferVars, topkVars>>

\* SparseCoding.__init__(S, D, learn_D)
NewSparseCoding ==
    \E learn \in BOOLEAN, rows \in 1..MaxBatch :
        /\ Built("SparseCoding", learn, TRUE, "ReLU", 0)
        /\ ConstructDict(learn, FALSE)
        /\ log_S_' = InitialLogS(rows)
        /\ UNCHANGED tieLow
        /\ UNCHANGED <<encoder, W_gate, b_dec, r_mag, b_mag, b_gate, latent_bias, pre_bias>>

\* SparseAutoEncoder.__init__(D, learn_D, relu)
NewSparseAutoEncoder ==
    \E learn \in BOOLEAN, relu \in BOOLEAN, W \in EncoderWeights, b \in BiasVecs(NumAtoms) :
        /\ Built("SparseAutoEncoder", learn, relu, "ReLU", 0)
        /\ ConstructDict(learn, FALSE)
        /\ encoder' = [weight |-> W, bias |-> b]
        /\ UNCHANGED tieLow
        /\ UNCHANGED <<log_S_, W_gate, b_dec, r_mag, b_mag, b_gate, latent_bias, pre_bias>>

\* GatedSAE.__init__(D, learn_D): it divides D_ by its row norms whatever learn_D is.
NewGatedSAE ==
    \E learn \in BOOLEAN, W \in GateWeights :
        /\ Built("GatedSAE", learn, TRUE, "ReLU", 0)
        /\ ConstructDict(learn, TRUE)
        /\ W_gate' = W
        /\ b_dec' = ConstVec(ObsDim, 0)
        /\ r_mag' = ConstVec(NumAtoms, 0)
        /\ b_mag' = ConstVec(NumAtoms, 0)
        /\ b_gate' = ConstVec(NumAtoms, 0)
        /\ UNCHANGED tieLow
        /\ UNCHANGED <<log_S_, encoder, latent_bias, pre_bias>>

\* TopKSAE.__init__(D, learn_D, k, postact_fn)
NewTopKSAE ==
    \E learn \in BOOLEAN, kk \in 0..NumAtoms, fn \in PostActs, W \in EncoderWeights,
       low \in BOOLEAN :
        /\ Built("TopKSAE", learn, TRUE, fn, kk)
        /\ tieLow' = low
        /\ ConstructDict(learn, FALSE)
        /\ encoder' = [weight |-> W, bias |-> ConstVec(NumAtoms, 0)]
        /\ latent_bias' = ConstVec(NumAtoms, 0)
        /\ pre_bias' = ConstVec(ObsDim, 0)
        /\ UNCHANGED <<log_S_, W_gate, b_dec, r_mag, b_mag, b_gate>>

\* ------------------------------------------------------------------- calls
Returned(op, X, res, loss) ==
    [NoRet EXCEPT !.op = op, !.X = X, !.S_ = res.S_, !.X_ = res.X_,
                  !.pre_gate_hidden = res.pre_gate_hidden, !.loss = loss, !.D_ = res.D_]

\* model.forward(X)
Forward ==
    \E X \in XChoices :
        /\ pc = "ready"
        /\ ret' = [Returned("forward", X, ForwardResult(X), "") EXCEPT
                        !.streak = IF ret.op = "forward" /\ ret.X = X THEN 2 ELSE 1]
        /\ D_' = ret'.D_
        /\ UNCHANGED <<pc, cfg, D, D0, D_grad, params, inferVars, tieLow, topkVars>>

\* model.loss_forward(X, weight): forward, then the loss.
LossForward ==
    \E X \in XChoices, w \in Weights :
        /\ pc = "ready"
        /\ ret' = Returned("loss_forward", X, ForwardResult(X), LossOf(w))
        /\ D_' = ret'.D_
        /\ UNCHANGED <<pc, cfg, D, D0, D_grad, params, inferVars, tieLow, topkVars>>

\* The D_ that make_decoder_weights_and_grad_unit_norm leaves: D_normed is a
\* local, and nothing is assigned to self.D_.
DecoderAfterGradProjection(Dm) == Dm

\* GatedSAE.make_decoder_weights_and_grad_unit_norm(): with D_.grad None,
\* None * D_normed raises TypeError.
MakeDecoderWeightsAndGradUnitNorm ==
    /\ pc = "ready"
    /\ cfg.model = "GatedSAE"
    /\ GradProjectable(D_grad)
    /\ IF D_grad.set
       THEN /\ D_grad' = [set |-> TRUE,
                          g |-> [i \in Atoms |->
                                    GradRowSub(D_grad.g[i], GradProjRow(D_grad.g[i], D_[i]))]]
            /\ ret' = [NoRet EXCEPT !.op = "make_decoder_weights_and_grad_unit_norm"]
       ELSE /\ D_grad' = D_grad
            /\ ret' = [NoRet EXCEPT !.op = "make_decoder_weights_and_grad_unit_norm",
                                    !.raised = "TypeError"]
    /\ D_' = DecoderAfterGradProjection(D_)
    /\ UNCHANGED <<pc, cfg, D, D0, params, inferVars, tieLow, topkVars>>

\* -------------------------------------------------- the training driver
\* loss.backward() after a loss_forward: autograd adds the loss's gradient to
\* D_.grad when D_ requires grad.
Backward ==
    \E g \in GradChoices :
        /\ pc = "ready"
        /\ ret.op = "loss_forward"
        /\ cfg.learn_D
        /\ GradSmall(D_grad)
        /\ D_grad' = Accumulate(D_grad, g)
        /\ ret' = [NoRet EXCEPT !.op = "backward"]
        /\ UNCHANGED <<pc, cfg, D, D0, D_, params, inferVars, tieLow, topkVars>>

\* optimizer.zero_grad() of the driver's optimizer
ZeroGrad ==
    /\ pc = "ready"
    /\ D_grad.set
    /\ D_grad' = NoGrad
    /\ ret' = [NoRet EXCEPT !.op = "zero_grad"]
    /\ UNCHANGED <<pc, cfg, D, D0, D_, params, inferVars, tieLow, topkVars>>

Stepped ==
    /\ pc = "ready"
    /\ ret' = [NoRet EXCEPT !.op = "step"]
    /\ UNCHANGED <<pc, cfg, D, D0, D_grad, inferVars, tieLow, topkVars>>

\* optimizer.step() on a learned dictionary: D_ moves off the unit sphere.
StepDictionary ==
    \E Dm \in StepDicts :
        /\ Stepped
        /\ cfg.learn_D
        /\ D_' = Dm
        /\ UNCHANGED params

\* optimizer.step() on SparseCoding.log_S_
StepLogS ==
    \E c \in {LogSInit, 0} :
        /\ Stepped
        /\ cfg.model = "SparseCoding"
        /\ log_S_' = [b \in DOMAIN log_S_ |-> [i \in Atoms |-> Rat(c, 1)]]
        /\ UNCHANGED <<D_, encoder, W_gate, b_dec, r_mag, b_mag, b_gate, latent_bias, pre_bias>>

\* optimizer.step() on the encoder of SparseAutoEncoder / TopKSAE
StepEncoder ==
    \E W \in EncoderWeights, b \in BiasVecs(NumAtoms) :
        /\ Stepped
        /\ cfg.model \in {"SparseAutoEncoder", "TopKSAE"}
        /\ encoder' = [weight |-> W,
                       bias |-> IF cfg.model = "TopKSAE" THEN encoder.bias ELSE b]
        /\ UNCHANGED <<D_, log_S_, W_gate, b_dec, r_mag, b_mag, b_gate, latent_bias, pre_bias>>

\* optimizer.step() on the GatedSAE gate parameters
StepGate ==
    \E W \in GateWeights, p \in BiasPairs :
        /\ Stepped
        /\ cfg.model = "GatedSAE"
        /\ W_gate' = W /\ b_dec' = Vec(ObsDim, 1, p[1], p[2]) /\ b_gate' = Vec(NumAtoms, 1, p[1], p[2])
        /\ UNCHANGED <<D_, log_S_, encoder, r_mag, b_mag, latent_bias, pre_bias>>

\* optimizer.step() on the GatedSAE magnitude parameters
StepMagnitude ==
    \E c \in MagnitudeChoices :
        /\ Stepped
        /\ cfg.model = "GatedSAE"
        /\ r_mag' = ConstVec(NumAtoms, c[1]) /\ b_mag' = Vec(NumAtoms, 1, c[2], c[3])
        /\ UNCHANGED <<D_, log_S_, encoder, W_gate, b_dec, b_gate, latent_bias, pre_bias>>

\* optimizer.step() on the TopKSAE biases
StepBiases ==
    \E p \in BiasPairs :
        /\ Stepped
        /\ cfg.model = "TopKSAE"
        /\ latent_bias' = Vec(NumAtoms, 1, p[1], p[2]) /\ pre_bias' = Vec(ObsDim, 1, p[1], p[2])
        /\ UNCHANGED <<D_, log_S_, encoder, W_gate, b_dec, r_mag, b_mag, b_gate>>

\* ------------------------------------------------------- SparseCoding.infer
\* A backward pass that reaches D_.grad whether or not D_ requires grad.
InferBackwardAlways(learn, grad, g) == Accumulate(grad, g)

\* What one loss.backward() of infer does to D_.grad: the loss depends on D_, so
\* autograd accumulates into D_.grad when D_ requires grad (optimizer.zero_grad()
\* clears the gradient of log_S_ only).
InferBackward(learn, grad, g) == IF learn THEN Accumulate(grad, g) ELSE grad

\* Adam's step on log_S_: an entry moves by lr against the sign Adam's moments
\* give its gradient, and stays where a gradient is zero; d gives the sign per atom.
AdamStep(logS, d) ==
    [b \in DOMAIN logS |-> [i \in Atoms |-> RatAdd(logS[b][i], Rat(d[i] * LrNum, LrDen))]]

\* F.relu on a matrix
ReluAll(S) == [b \in DOMAIN S |-> [i \in DOMAIN S[b] |-> Relu(S[b][i])]]

\* infer(X, num_iterations): replaces log_S_, builds Adam([log_S_]).
InferBegin ==
    \E X \in XChoices, n \in 0..MaxIter :
        /\ pc = "ready"
        /\ cfg.model = "SparseCoding"
        /\ GradSmall(D_grad)
        /\ pc' = "infer"
        /\ log_S_' = InitialLogS(Rows(X))
        /\ num_iterations' = n
        /\ iter' = 0
        /\ inferX' = X
        /\ S_local' = Unbound
        /\ entry' = [D_ |-> D_, D_grad |-> D_grad]
        /\ ret' = [NoRet EXCEPT !.op = "infer:running"]
        /\ UNCHANGED <<cfg, D, D0, D_, D_grad, encoder, W_gate, b_dec, r_mag, b_mag, b_gate,
                       latent_bias, pre_bias, tieLow, topkVars>>

\* One pass of the loop body: zero_grad, S_ = exp(log_S_), X_ = S_ @ D_, loss,
\* backward, optimizer.step(), S_.data = relu(S_.data).
InferIteration ==
    \E g \in GradChoices, d \in {-1, 0, 1} :
        /\ pc = "infer"
        /\ iter < num_iterations
        /\ D_grad' = InferBackward(cfg.learn_D, D_grad, g)
        /\ log_S_' = AdamStep(log_S_, Vec(NumAtoms, 1, d, -d))
        /\ S_local' = [bound |-> TRUE, val |-> ReluAll(SparseCodingCode(log_S_))]
        /\ iter' = iter + 1
        /\ UNCHANGED <<pc, cfg, D, D0, D_, encoder, W_gate, b_dec, r_mag, b_mag, b_gate,
                       latent_bias, pre_bias, ret, num_iterations, inferX, entry,
                       tieLow, topkVars>>

\* return S_.detach(): S_ is assigned only inside the loop, so with no pass made
\* the name is unbound.  The locals end with the call.
InferReturn ==
    /\ pc = "infer"
    /\ iter = num_iterations
    /\ pc' = "ready"
    /\ ret' = [NoRet EXCEPT !.op = "infer", !.X = inferX, !.n = num_iterations,
                            !.iters = iter, !.entry = entry,
                            !.S_ = S_local.val,
                            !.raised = IF S_local.bound THEN "" ELSE "UnboundLocalError"]
    /\ num_iterations' = 0 /\ iter' = 0 /\ inferX' = <<>> /\ S_local' = Unbound
    /\ entry' = [D_ |-> <<>>, D_grad |-> NoGrad]
    /\ UNCHANGED <<cfg, D, D0, D_, D_grad, params, tieLow, topkVars>>

\* ------------------------------------------------------------ specification
Next ==
    \/ NewSparseCoding \/ NewSparseAutoEncoder \/ NewGatedSAE \/ NewTopKSAE
    \/ Forward \/ LossForward \/ MakeDecoderWeightsAndGradUnitNorm
    \/ Backward \/ ZeroGrad
    \/ StepDictionary \/ StepLogS \/ StepEncoder \/ StepGate \/ StepMagnitude \/ StepBiases
    \/ InferBegin \/ InferIteration \/ InferReturn

Spec == Init /\ [][Next]_vars

\* ------------------------------------------------------- TopK on its own
TopKVals == -3..2

InitTopK ==
    /\ pc = "topk"
    /\ cfg = [model |-> "TopK", learn_D |-> FALSE, relu |-> TRUE, postact |-> "ReLU", k |-> 0]
    /\ D = <<>> /\ D0 = <<>> /\ D_ = <<>> /\ D_grad = NoGrad
    /\ log_S_ = <<>>
    /\ encoder = [weight |-> <<>>, bias |-> <<>>]
    /\ W_gate = <<>> /\ b_dec = <<>> /\ r_mag = <<>> /\ b_mag = <<>> /\ b_gate = <<>>
    /\ latent_bias = <<>> /\ pre_bias = <<>>
    /\ ret = NoRet
    /\ num_iterations = 0 /\ iter = 0 /\ inferX = <<>> /\ S_local = Unbound
    /\ entry = [D_ |-> <<>>, D_grad |-> NoGrad]
    /\ tieLow \in BOOLEAN
    /\ x \in [1..TopKLen -> TopKVals]
    /\ k \in 1..TopKLen
    /\ r = <<>>

\* TopK(k)(x) with the default post-activation
TopKCall ==
    /\ pc = "topk"
    /\ r = <<>>
    /\ r' = TopKForward(x, k, cfg.postact, tieLow)
    /\ UNCHANGED <<pc, cfg, D, D0, D_, D_grad, params, ret, inferVars, tieLow, x, k>>

NextTopK == TopKCall

SpecTopK == InitTopK /\ [][NextTopK]_vars

\* ------------------------------------------------------------------ claims
IsForward(rt) == rt.op \in {"forward", "loss_forward"}

NonNegative(S) == \A b \in DOMAIN S : \A i \in DOMAIN S[b] : NumSign(S[b][i]) >= 0

\* C1: with learn_D true, a forward call (alone or inside loss_forward) made on
\* a dictionary with no zero row leaves every row of D_ with L2 norm 1, and the
\* X_ it returns is the product with that unit-norm D_.
C1_UnitNormAfterForward ==
    [][(IsForward(ret') /\ pc = "ready" /\ cfg.learn_D /\ NoZeroRow(D_))
        => (AllUnit(D_') /\ ret'.X_.D = D_' /\ ret'.X_.S = ret'.S_)]_vars

\* A learned dictionary with a row that was not of unit norm as an integer row
\* (such as (3,4), now (3,4)/5), after a forward call renormalised it.
C1_Witness ==
    /\ ret.op = "forward" /\ cfg.learn_D
    /\ AllUnit(D_) /\ \E i \in DOMAIN D_ : D_[i].q > 1
    /\ ret.X_.D = D_

\* C2 as stated: with learn_D false, D_ and the caller's D always hold the
\* values D had before construction.
C2_FixedDictionaryUntouched ==
    (pc # "new" /\ ~cfg.learn_D) => (D_ = D0 /\ D = D0)

\* Whether row a is row b divided by b's L2 norm (NaNs for a zero row).
IsNormalisedFrom(a, b) ==
    IF IsZeroRow(b) THEN a = NaNRow
    ELSE IsUnitRow(a) /\ b.v = [j \in DOMAIN a.v |-> VecGcd(b.v) * a.v[j]]

\* C2, amended: with learn_D false, SparseCoding, SparseAutoEncoder and TopKSAE
\* keep D_ and the caller's D at the values D had before construction; GatedSAE
\* holds those rows divided by their norms (its constructor divides in place, so
\* the caller's D holds them too), and no later call changes them.
C2_FixedDictionaryFrame ==
    (pc # "new" /\ ~cfg.learn_D) =>
        /\ D = D_
        /\ IF cfg.model = "GatedSAE"
           THEN \A i \in DOMAIN D_ : IsNormalisedFrom(D_[i], D0[i])
           ELSE D_ = D0

\* A fixed-dictionary GatedSAE after a forward call, its D_ not what the caller
\* passed.
C2_Witness ==
    /\ ret.op = "forward" /\ ~cfg.learn_D /\ cfg.model = "GatedSAE"
    /\ D_ # D0 /\ D = D_

\* C3 as stated: after make_decoder_weights_and_grad_unit_norm returns, every
\* row of D_ (none of them zero) has L2 norm 1.
C3_DecoderUnitNormAfterCall ==
    (ret.op = "make_decoder_weights_and_grad_unit_norm" /\ ret.raised = "" /\ NoZeroRow(D_))
        => AllUnit(D_)

\* C4: for x with pairwise distinct values and 1 <= k <= N, TopK returns a
\* vector of length N that is max(x[i], 0) where x[i] is one of the k largest
\* values and 0 elsewhere; its non-zero entries are as many as the strictly
\* positive values among the k largest, and at most k.
Distinct(xs) == \A i, j \in DOMAIN xs : i # j => xs[i] # xs[j]

AmongLargest(xs, kk, i) == Cardinality({j \in DOMAIN xs : xs[j] > xs[i]}) < kk

NonZeros(rs) == {i \in DOMAIN rs : rs[i] # ZeroNum}

C4_TopKSelectsLargest ==
    (r # <<>> /\ Distinct(x)) =>
        /\ DOMAIN r = 1..TopKLen
        /\ \A i \in DOMAIN x :
              r[i] = IF AmongLargest(x, k, i) /\ x[i] > 0 THEN IntNum(x[i]) ELSE ZeroNum
        /\ Cardinality(NonZeros(r)) =
              Cardinality({i \in DOMAIN x : AmongLargest(x, k, i) /\ x[i] > 0})
        /\ Cardinality(NonZeros(r)) <= k

\* k = 3 on distinct values of which one of the three largest is positive: one
\* non-zero entry.
C4_Witness ==
    /\ r # <<>> /\ Distinct(x) /\ k = 3
    /\ Cardinality({i \in DOMAIN x : AmongLargest(x, k, i) /\ x[i] > 0}) = 1
    /\ Cardinality(NonZeros(r)) = 1

\* C5 as stated: every entry of the S_ a forward returns is >= 0, for every
\* model and every post-activation TopKSAE can be built with.
C5_CodeNonNegative == IsForward(ret) => NonNegative(ret.S_)

\* C5, amended: every entry of S_ is >= 0 for SparseCoding, SparseAutoEncoder
\* (ReLU or Exp), GatedSAE, and TopKSAE built with the default ReLU
\* post-activation.
C5_CodeNonNegativeWithReLU ==
    (IsForward(ret) /\ (cfg.model = "TopKSAE" => cfg.postact = "ReLU"))
        => NonNegative(ret.S_)

\* A ReLU TopKSAE selecting every position, one of them zeroed and one kept.
C5_Witness ==
    /\ ret.op = "forward" /\ cfg.model = "TopKSAE" /\ cfg.postact = "ReLU"
    /\ cfg.k = NumAtoms
    /\ \E b \in DOMAIN ret.S_ : \E i, j \in DOMAIN ret.S_[b] :
          ret.S_[b][i] = ZeroNum /\ NumSign(ret.S_[b][j]) > 0

\* Twice the magnitude relu(pre * exp(r_mag) + b_mag), an integer for r_mag >= -1.
TwiceMagnitude(pre, rm, bm) ==
    LET m == pre * Pow2(rm + 1) + 2 * bm IN IF m > 0 THEN m ELSE 0

\* C6: the gate of GatedSAE.forward is 0 for a negative pre_gate_hidden, 1/2
\* for one that is exactly 0 and 1 for a positive one: S_ is 0, half the
\* magnitude, the magnitude.
C6_GateValues ==
    (ret.op = "forward" /\ cfg.model = "GatedSAE") =>
        \A b \in DOMAIN ret.S_ : \A i \in Atoms :
            LET g == ret.pre_gate_hidden[b][i]
                m2 == TwiceMagnitude(g - b_gate[i], r_mag[i], b_mag[i])
            IN  ret.S_[b][i] =
                    Num(Rat(m2 * (IF g < 0 THEN 0 ELSE IF g = 0 THEN 1 ELSE 2), 4))

\* A latent whose pre_gate_hidden is exactly 0 and whose magnitude is 1: S_ is 1/2.
C6_Witness ==
    /\ ret.op = "forward" /\ cfg.model = "GatedSAE"
    /\ \E b \in DOMAIN ret.S_ : \E i \in Atoms :
          /\ ret.pre_gate_hidden[b][i] = 0
          /\ TwiceMagnitude(-b_gate[i], r_mag[i], b_mag[i]) = 2
          /\ ret.S_[b][i] = Num(Rat(1, 2))

C8_InferReturnsCode ==
    ret.op = "infer" =>
        /\ ret.iters = ret.n
        /\ ret.raised = ""
        /\ Len(ret.S_) = Len(ret.X)
        /\ \A b \in DOMAIN ret.S_ : Len(ret.S_[b]) = NumAtoms

\* C9 as stated: what infer (num_iterations >= 1) returns is exp(log_S_) of the
\* parameter as it stands when infer returns.
C9_InferReturnsStoredCode ==
    (ret.op = "infer" /\ ret.n >= 1) => ret.S_ = SparseCodingCode(log_S_)

\* C10 as stated: D_ and D_.grad are the same after infer returns as when it
\* was called.
C10_InferLeavesDictionaryAndGrad ==
    ret.op = "infer" => (D_ = ret.entry.D_ /\ D_grad = ret.entry.D_grad)

\* C10, amended: infer leaves D_'s values as they were; it leaves D_.grad as it
\* was when learn_D is false or no pass is made, and with learn_D true every
\* pass accumulates into D_.grad, which is a tensor when infer returns.
C10_InferLeavesDictionary ==
    ret.op = "infer" =>
        /\ D_ = ret.entry.D_
        /\ (~cfg.learn_D \/ ret.n = 0) => D_grad = ret.entry.D_grad
        /\ (cfg.learn_D /\ ret.n >= 1) => D_grad.set

\* infer on a learned dictionary, two passes made, D_ as it was and D_.grad not.
C10_Witness ==
    /\ ret.op = "infer" /\ cfg.learn_D /\ ret.n = 2
    /\ D_ = ret.entry.D_ /\ D_grad # ret.entry.D_grad

====
